---------------------------- MODULE Spec2Model ----------------------------
(***************************************************************************)
(* Calculation-setup synchronisation and calculation orchestration of the  *)
(* Activity Browser:                                                       *)
(*   - CSGenericModel / CSActivityModel / CSMethodsModel                   *)
(*         (ui/tables/models/lca_setup.py)                                 *)
(*   - do_LCA_calculations (bwutils/calculations.py)                       *)
(*                                                                         *)
(* Row indices of the code are 0-based; sequences here are 1-based, so a   *)
(* code index i is position i + 1.                                         *)
(***************************************************************************)
EXTENDS Integers, Sequences, FiniteSets, TLC

\* ------------------------------------------------------------------ bounds
MaxInv == 2        \* longest 'inv' sequence of a setup in the initial store
MaxRows == 2       \* include_activities is not offered beyond this many rows
MaxTracked == 3    \* cap on len(_activities): change signals stop being fired
MaxIa == 2         \* longest 'ia' sequence of a setup in the initial store
MaxRelocate == 3   \* longest table relocateRow is tried on

\* --------------------------------------------------------------- universes
None == "None"
NaN == "NaN"
Keys == {"k1", "k2"}
Amounts == {"1.0"}
CSNames == {"cs1", "cs2"}          \* names present in the store
GhostName == "ghost"               \* a name absent from the store
Methods == {"m1", "m2", "m3"}
OfferedMethods == {"m1", "m2"}     \* the methods the setups are built from

\* What activity_controller.get(key) finds for a key:
\*   absent             -> raises ActivityDataset.DoesNotExist
\*   emission           -> an entity whose "type" is not "process"
\*   process            -> a process, all displayed fields have values
\*   process_none_field -> a process that stores None for a displayed field
EntityStates == {"absent", "emission", "process", "process_none_field"}

VARIABLES
    activity_controller,  \* Entity Registry: key -> what get(key) finds
    connections,          \* key -> number of connections changed -> self.sync
    cs_controller,        \* Calculation-Setup Store: name -> [inv, ia]
    bw_methods,           \* Method Catalog: set of method references
    fu_current_cs,        \* CSActivityModel.current_cs
    fu_dataframe,         \* CSActivityModel._dataframe
    fu_activities,        \* CSActivityModel._activities (keys of the entities)
    m_current_cs,         \* CSMethodsModel.current_cs
    m_dataframe,          \* CSMethodsModel._dataframe
    emitted,              \* notifications emitted by the last operation
    raised,               \* exception that left the last operation, or None
    last,                 \* the last operation, its arguments and pre-state
    calc,                 \* the running do_LCA_calculations call
    updater               \* the signal updaters and datasets SQLiteBackend.delete works on

vars == <<activity_controller, connections, cs_controller, bw_methods,
          fu_current_cs, fu_dataframe, fu_activities, m_current_cs,
          m_dataframe, emitted, raised, last, calc, updater>>

\* ------------------------------------------------------------ sequences
RECURSIVE SeqsUpTo(_, _)
SeqsUpTo(S, n) ==
    IF n = 0 THEN {<< >>}
    ELSE LET shorter == SeqsUpTo(S, n - 1)
         IN  shorter \cup {Append(s, x) : s \in {t \in shorter : Len(t) = n - 1}, x \in S}

\* a pandas DataFrame is None until the first rebuild
NoDataFrame == [isNone |-> TRUE, rows |-> << >>]
DataFrame(rows) == [isNone |-> FALSE, rows |-> rows]

\* DataFrame.drop(labels).reset_index(drop=True) on a RangeIndex: the rows
\* whose 0-based label is in labels are removed
RECURSIVE DropFrom(_, _, _)
DropFrom(rows, labels, pos) ==
    IF rows = << >> THEN << >>
    ELSE IF pos \in labels THEN DropFrom(Tail(rows), labels, pos + 1)
         ELSE <<Head(rows)>> \o DropFrom(Tail(rows), labels, pos + 1)

drop(rows, labels) == DropFrom(rows, labels, 0)

\* numpy.insert(values, index, row, axis=0): row placed before 0-based index
np_insert(rows, index, row) ==
    SubSeq(rows, 1, index) \o <<row>> \o SubSeq(rows, index + 1, Len(rows))


\* ------------------------------------------------- functional units, rows
FunctionalUnit(key, amount) == [key |-> key, amount |-> amount]
FunctionalUnits == {FunctionalUnit(k, a) : k \in Keys, a \in Amounts}

\* what include_activities is offered: the same keys, with an amount that no
\* setup of the initial store uses as well
OtherAmount == "2.0"
OfferedUnits == {FunctionalUnit(k, a) : k \in Keys, a \in Amounts \cup {OtherAmount}}

\* what build_row returns for a key that fails: {} ; pd.DataFrame turns a {}
\* among the records into a row of NaN cells
EmptyRow == [key |-> NaN, Amount |-> NaN, fields |-> NaN]

\* activity_controller.get(key): a NaN key (a key read back from a NaN row)
\* is no key of the registry
Lookup(registry, key) == IF key \in Keys THEN registry[key] ELSE "absent"

\* CSActivityModel.build_row, the row it returns.  'fields' stands for the
\* cells Unit, Product, Activity, Location, Database read with
\* act.get(field, ""): the values, or None when the entity stores None.
build_row(registry, key, amount) ==
    LET act == Lookup(registry, key)
    IN  IF act = "absent" THEN EmptyRow                  \* DoesNotExist
        ELSE IF act = "emission" THEN EmptyRow            \* TypeError
        ELSE [key |-> key, Amount |-> amount,
              fields |-> IF act = "process_none_field" THEN None ELSE "values"]

\* CSActivityModel.build_row, its side effect: whether it reaches
\* act.changed.connect(self.sync) and self._activities.append(act)
subscribes(registry, key) ==
    Lookup(registry, key) \in {"process", "process_none_field"}

\* the records build_row returns for a sequence of functional units
RECURSIVE built_rows(_, _)
built_rows(registry, fus) ==
    IF fus = << >> THEN << >>
    ELSE <<build_row(registry, Head(fus).key, Head(fus).amount)>>
         \o built_rows(registry, Tail(fus))

\* the keys of the entities build_row appends to _activities, in order
RECURSIVE appended(_, _)
appended(registry, fus) ==
    IF fus = << >> THEN << >>
    ELSE (IF subscribes(registry, Head(fus).key) THEN <<Head(fus).key>> ELSE << >>)
         \o appended(registry, Tail(fus))

\* DataFrame.dropna().reset_index(drop=True): a row with any NA cell (NaN
\* or None) is dropped
IsNA(cell) == cell \in {NaN, None}
HasNA(row) == IsNA(row.key) \/ IsNA(row.Amount) \/ IsNA(row.fields)
dropna(rows) == SelectSeq(rows, LAMBDA r : ~HasNA(r))

\* number of occurrences of x in the sequence s
Count(s, x) == Cardinality({i \in 1..Len(s) : s[i] = x})

\* s repeated n times
RECURSIVE Repeat(_, _)
Repeat(s, n) == IF n = 0 THEN << >> ELSE s \o Repeat(s, n - 1)

\* n connect() calls per occurrence of a key in keys
Connect(conn, keys, n) == [k \in Keys |-> conn[k] + n * Count(keys, k)]

\* CSActivityModel.activities: [{key: Amount}] in row order
activities(df) ==
    IF df.isNone THEN << >>
    ELSE [i \in 1..Len(df.rows) |->
            FunctionalUnit(df.rows[i].key, df.rows[i].Amount)]

\* CSMethodsModel.methods
methods(df) == IF df.isNone THEN << >> ELSE df.rows

\* ------------------------------------------------------ signals, handlers
Updated == "updated"
SetupChanged == "calculation_setup_changed"

\* the record kept of the last operation: its name, its arguments, the number
\* of sync runs it caused, the number of stale method references it found and
\* the functional units it was offered
Op(op, name, src, tgt, runs) ==
    [op |-> op, name |-> name, src |-> src, tgt |-> tgt, runs |-> runs,
     stale |-> 0, offered |-> << >>]

\* The handler of calculation_setup_changed (the write-back path): the
\* current setup's sequences in the store become what the projections show.
WriteBackInv(store, cs, df) ==
    IF cs \in DOMAIN store /\ ~df.isNone
    THEN [store EXCEPT ![cs].inv = activities(df)]
    ELSE store

WriteBackIa(store, cs, df) ==
    IF cs \in DOMAIN store /\ ~df.isNone
    THEN [store EXCEPT ![cs].ia = methods(df)]
    ELSE store

\* delivery of the signals an operation of CSActivityModel emitted
FuDeliver(signals, store, cs, df) ==
    IF \E i \in 1..Len(signals) : signals[i] = SetupChanged
    THEN WriteBackInv(store, cs, df) ELSE store

\* delivery of the signals an operation of CSMethodsModel emitted
MDeliver(signals, store, cs, df) ==
    IF \E i \in 1..Len(signals) : signals[i] = SetupChanged
    THEN WriteBackIa(store, cs, df) ELSE store

\* ------------------------------------------- CSGenericModel.relocateRow
\* relocateRow with the move-up branch written like the move-down branch:
\* the copy is inserted before the old row is deleted, at an index the
\* insertion has shifted
relocateRow_insert_first(rows, row_source, row_target) ==
    IF row_source = row_target THEN rows
    ELSE drop(np_insert(rows, row_target, rows[row_source + 1]), {row_source})

\* the dataframe rows after relocateRow(row_source, row_target)
relocateRow(rows, row_source, row_target) ==
    LET data_source == rows[row_source + 1]
    IN  IF row_source > row_target          \* the row needs to be moved up
        THEN np_insert(drop(rows, {row_source}), row_target, data_source)
        ELSE IF row_source < row_target     \* the row needs to be moved down
        THEN drop(np_insert(rows, row_target, data_source), {row_source})
        ELSE rows

\* relocateRow with its two emits in the other order
relocate_signals_reversed == <<SetupChanged, Updated>>

relocate_signals == <<Updated, SetupChanged>>

\* ------------------------------------------------------ CSActivityModel
\* the rows CSActivityModel.sync leaves in _dataframe
sync_rows(registry, fus) == dropna(built_rows(registry, fus))

\* for act in self._activities: act.changed.disconnect(self.sync)
\* disconnect raises RuntimeError when the signal has no such connection
RECURSIVE disconnect_all(_, _)
disconnect_all(keys, conn) ==
    IF keys = << >> THEN [conn |-> conn, error |-> None]
    ELSE IF conn[Head(keys)] = 0 THEN [conn |-> conn, error |-> "RuntimeError"]
    ELSE disconnect_all(Tail(keys), [conn EXCEPT ![Head(keys)] = @ - 1])

\* delete_rows: activity_controller.get(key), then disconnect, per row key
RECURSIVE delete_disconnect(_, _, _)
delete_disconnect(keys, registry, conn) ==
    IF keys = << >> THEN [conn |-> conn, error |-> None]
    ELSE IF Head(keys) \notin Keys THEN [conn |-> conn, error |-> "TypeError"]
    ELSE IF registry[Head(keys)] = "absent"
         THEN [conn |-> conn, error |-> "DoesNotExist"]
    ELSE IF conn[Head(keys)] = 0 THEN [conn |-> conn, error |-> "RuntimeError"]
    ELSE delete_disconnect(Tail(keys), registry,
                           [conn EXCEPT ![Head(keys)] = @ - 1])

\* the elements of a set of row numbers in ascending order
RECURSIVE Ascending(_)
Ascending(S) ==
    IF S = {} THEN << >>
    ELSE LET m == CHOOSE x \in S : \A y \in S : x <= y
         IN  <<m>> \o Ascending(S \ {m})

sync_signals == <<Updated>>
\* delete_rows without its last line
fu_delete_signals_updated_only == <<Updated>>

fu_delete_signals == <<Updated, SetupChanged>>
fu_include_signals == <<Updated, SetupChanged>>

Inv(store, cs) == IF cs \in DOMAIN store THEN store[cs].inv ELSE << >>

\* ------------------------------------------------------------- actions
m_unchanged == UNCHANGED <<bw_methods, m_current_cs, m_dataframe, updater>>

\* load tearing the subscriptions down before it looks the name up
load_teardown_first(name) ==
    /\ last' = Op("load", name, 0, 0, 0)
    /\ m_unchanged /\ UNCHANGED <<activity_controller, cs_controller, calc>>
    /\ LET d == disconnect_all(fu_activities, connections)
       IN  IF d.error # None
           THEN /\ raised' = d.error
                /\ emitted' = << >>
                /\ connections' = d.conn
                /\ UNCHANGED <<fu_current_cs, fu_dataframe, fu_activities>>
           ELSE IF name \notin DOMAIN cs_controller
           THEN /\ raised' = "AssertionError"
                /\ emitted' = << >>
                /\ connections' = d.conn
                /\ fu_activities' = << >>
                /\ UNCHANGED <<fu_current_cs, fu_dataframe>>
           ELSE LET fus == Inv(cs_controller, name)
                    new == appended(activity_controller, fus)
                IN  /\ raised' = None
                    /\ fu_current_cs' = name
                    /\ fu_dataframe' = DataFrame(sync_rows(activity_controller, fus))
                    /\ fu_activities' = new
                    /\ connections' = Connect(d.conn, new, 1)
                    /\ emitted' = sync_signals

\* CSActivityModel.load(name)
load(name) ==
    /\ last' = Op("load", name, 0, 0, 0)
    /\ m_unchanged /\ UNCHANGED <<activity_controller, cs_controller, calc>>
    /\ IF name \notin DOMAIN cs_controller
       THEN /\ raised' = "AssertionError"
            /\ emitted' = << >>
            /\ UNCHANGED <<connections, fu_current_cs, fu_dataframe, fu_activities>>
       ELSE LET d == disconnect_all(fu_activities, connections)
                fus == Inv(cs_controller, name)
                new == appended(activity_controller, fus)
            IN  IF d.error # None
                THEN /\ raised' = d.error
                     /\ emitted' = << >>
                     /\ connections' = d.conn
                     /\ UNCHANGED <<fu_current_cs, fu_dataframe, fu_activities>>
                ELSE /\ raised' = None
                     /\ fu_current_cs' = name
                     /\ fu_dataframe' = DataFrame(sync_rows(activity_controller, fus))
                     /\ fu_activities' = new
                     /\ connections' = Connect(d.conn, new, 1)
                     /\ emitted' = sync_signals

\* sync cleaning the store as CSMethodsModel.update_cs does: the functional
\* units whose row it drops are removed from 'inv' as well
sync_pruning_store ==
    /\ last' = Op("sync", fu_current_cs, 0, 0, 1)
    /\ m_unchanged /\ UNCHANGED <<activity_controller, calc, fu_current_cs>>
    /\ IF fu_current_cs = None
       THEN /\ raised' = "AssertionError"
            /\ emitted' = << >>
            /\ UNCHANGED <<connections, fu_dataframe, fu_activities, cs_controller>>
       ELSE LET fus == Inv(cs_controller, fu_current_cs)
                new == appended(activity_controller, fus)
                df == DataFrame(sync_rows(activity_controller, fus))
            IN  /\ Len(fu_activities) + Len(new) <= MaxTracked
                /\ raised' = None
                /\ fu_dataframe' = df
                /\ fu_activities' = fu_activities \o new
                /\ connections' = Connect(connections, new, 1)
                /\ emitted' = sync_signals
                /\ cs_controller' = WriteBackInv(cs_controller, fu_current_cs, df)

\* CSActivityModel.sync()
sync ==
    /\ last' = Op("sync", fu_current_cs, 0, 0, 1)
    /\ m_unchanged /\ UNCHANGED <<activity_controller, cs_controller, calc, fu_current_cs>>
    /\ IF fu_current_cs = None
       THEN /\ raised' = "AssertionError"
            /\ emitted' = << >>
            /\ UNCHANGED <<connections, fu_dataframe, fu_activities>>
       ELSE LET fus == Inv(cs_controller, fu_current_cs)
                new == appended(activity_controller, fus)
            IN  /\ Len(fu_activities) + Len(new) <= MaxTracked
                /\ raised' = None
                /\ fu_dataframe' = DataFrame(sync_rows(activity_controller, fus))
                /\ fu_activities' = fu_activities \o new
                /\ connections' = Connect(connections, new, 1)
                /\ emitted' = sync_signals

\* A process of the registry is edited (a displayed field set to None),
\* retyped or deleted, and its 'changed' signal is delivered: every connection
\* to sync present at the emit runs sync once.
entity_changed(key, state) ==
    /\ activity_controller[key] = "process"
    /\ state # activity_controller[key]
    /\ LET registry == [activity_controller EXCEPT ![key] = state]
           runs == connections[key]
           fus == Inv(cs_controller, fu_current_cs)
           new == appended(registry, fus)
       IN  /\ Len(fu_activities) + runs * Len(new) <= MaxTracked
           /\ activity_controller' = registry
           /\ last' = Op("entity_changed", key, 0, 0, runs)
           /\ raised' = None
           /\ emitted' = Repeat(sync_signals, runs)
           /\ fu_dataframe' = IF runs = 0 THEN fu_dataframe
                              ELSE DataFrame(sync_rows(registry, fus))
           /\ fu_activities' = fu_activities \o Repeat(new, runs)
           /\ connections' = Connect(connections, new, runs)
    /\ m_unchanged /\ UNCHANGED <<cs_controller, calc, fu_current_cs>>

\* CSGenericModel.relocateRow on the functional-unit table
fu_relocateRow(row_source, row_target) ==
    /\ ~fu_dataframe.isNone
    /\ row_source \in 0..(Len(fu_dataframe.rows) - 1)
    /\ row_target \in 0..Len(fu_dataframe.rows)
    /\ LET df == DataFrame(relocateRow(fu_dataframe.rows, row_source, row_target))
       IN  /\ fu_dataframe' = df
           /\ emitted' = relocate_signals
           /\ cs_controller' = FuDeliver(relocate_signals, cs_controller, fu_current_cs, df)
    /\ last' = Op("relocateRow", "fu", row_source, row_target, 0)
    /\ raised' = None
    /\ m_unchanged
    /\ UNCHANGED <<activity_controller, connections, fu_current_cs, fu_activities, calc>>

\* CSActivityModel.delete_rows(proxies), rows = the selected row numbers
fu_delete_rows(rows) ==
    /\ ~fu_dataframe.isNone
    /\ rows \subseteq 0..(Len(fu_dataframe.rows) - 1)
    /\ last' = Op("delete_rows", "fu", 0, 0, 0)
    /\ m_unchanged /\ UNCHANGED <<activity_controller, fu_current_cs, fu_activities, calc>>
    /\ LET order == Ascending(rows)
           keys == [i \in 1..Len(order) |-> fu_dataframe.rows[order[i] + 1].key]
           d == delete_disconnect(keys, activity_controller, connections)
           df == DataFrame(drop(fu_dataframe.rows, rows))
       IN  /\ connections' = d.conn
           /\ raised' = d.error
           /\ IF d.error # None
              THEN /\ emitted' = << >>
                   /\ UNCHANGED <<fu_dataframe, cs_controller>>
              ELSE /\ fu_dataframe' = df
                   /\ emitted' = fu_delete_signals
                   /\ cs_controller' = FuDeliver(fu_delete_signals, cs_controller,
                                                 fu_current_cs, df)

\* include_activities without the test against the existing keys
fu_include_activities_unfiltered(new_activities) ==
    /\ ~fu_dataframe.isNone
    /\ Len(fu_dataframe.rows) + Len(new_activities) <= MaxRows
    /\ LET fus == new_activities
           data == built_rows(activity_controller, fus)
           new == appended(activity_controller, fus)
           df == DataFrame(fu_dataframe.rows \o data)
       IN  /\ Len(fu_activities) + Len(new) <= MaxTracked
           /\ fu_activities' = fu_activities \o new
           /\ connections' = Connect(connections, new, 1)
           /\ IF data # << >>
              THEN /\ fu_dataframe' = df
                   /\ emitted' = fu_include_signals
                   /\ cs_controller' = FuDeliver(fu_include_signals, cs_controller,
                                                 fu_current_cs, df)
              ELSE /\ emitted' = << >>
                   /\ UNCHANGED <<fu_dataframe, cs_controller>>
    /\ last' = [Op("include_activities", "fu", 0, 0, 0) EXCEPT !.offered = new_activities]
    /\ raised' = None
    /\ m_unchanged /\ UNCHANGED <<activity_controller, fu_current_cs, calc>>

\* CSActivityModel.include_activities(new_activities)
fu_include_activities(new_activities) ==
    /\ ~fu_dataframe.isNone
    /\ Len(fu_dataframe.rows) + Len(new_activities) <= MaxRows
    /\ LET existing == {fu_dataframe.rows[i].key : i \in 1..Len(fu_dataframe.rows)}
           fus == SelectSeq(new_activities, LAMBDA f : f.key \notin existing)
           data == built_rows(activity_controller, fus)
           new == appended(activity_controller, fus)
           df == DataFrame(fu_dataframe.rows \o data)
       IN  /\ Len(fu_activities) + Len(new) <= MaxTracked
           /\ fu_activities' = fu_activities \o new
           /\ connections' = Connect(connections, new, 1)
           /\ IF data # << >>
              THEN /\ fu_dataframe' = df
                   /\ emitted' = fu_include_signals
                   /\ cs_controller' = FuDeliver(fu_include_signals, cs_controller,
                                                 fu_current_cs, df)
              ELSE /\ emitted' = << >>
                   /\ UNCHANGED <<fu_dataframe, cs_controller>>
    /\ last' = [Op("include_activities", "fu", 0, 0, 0) EXCEPT !.offered = new_activities]
    /\ raised' = None
    /\ m_unchanged /\ UNCHANGED <<activity_controller, fu_current_cs, calc>>

\* ---------------------------------------------------------------- Init
\* no database is known to SQLiteBackend.delete
NoUpdater ==
    [databases |-> {}, datasets |-> {}, database_updater |-> {},
     activity_updater |-> {}, exchange_updater |-> {},
     trace |-> << >>, raised |-> None, name |-> None]

\* no call of do_LCA_calculations has been made
NoCalc ==
    [pc |-> "idle", cs_name |-> None, calculation_type |-> None, trace |-> << >>,
     error |-> [type |-> None, title |-> None, detail |-> None, origin |-> None],
     thrown |-> None, demand |-> << >>, methods |-> << >>]

InitStore ==
    {[n \in CSNames |-> [inv |-> IF n = "cs1" THEN inv1 ELSE <<FunctionalUnit("k2", "1.0")>>,
                         ia |-> IF n = "cs1" THEN <<"m1">> ELSE <<"m2">>]] :
        inv1 \in SeqsUpTo(FunctionalUnits, MaxInv)}

InitRegistry ==
    {r \in [Keys -> EntityStates] : r["k1"] = "process"}

InitFu ==
    /\ activity_controller \in InitRegistry
    /\ connections = [k \in Keys |-> 0]
    /\ cs_controller \in InitStore
    /\ bw_methods = Methods
    /\ fu_current_cs = None
    /\ fu_dataframe = NoDataFrame
    /\ fu_activities = << >>
    /\ m_current_cs = None
    /\ m_dataframe = NoDataFrame
    /\ emitted = << >>
    /\ raised = None
    /\ last = Op("init", None, 0, 0, 0)
    /\ calc = NoCalc
    /\ updater = NoUpdater

NextFu ==
    \/ \E name \in {"cs1", GhostName} : load(name)
    \/ sync
    \/ \E key \in Keys, state \in EntityStates : entity_changed(key, state)
    \/ \E rows \in SUBSET (0..(MaxRows - 1)) : fu_delete_rows(rows)
    \/ \E batch \in SeqsUpTo(FunctionalUnits, 2) : fu_include_activities(batch)

SpecFu == InitFu /\ [][NextFu]_vars

\* the five operations of the functional-unit table, include_activities
\* being offered functional units with amounts of its rows and with another
\* amount, entities being what they are at the start
NextInclude ==
    \/ load("cs1")
    \/ sync
    \/ \E i \in 0..MaxRows, j \in 0..MaxRows : fu_relocateRow(i, j)
    \/ \E rows \in SUBSET (0..(MaxRows - 1)) : fu_delete_rows(rows)
    \/ \E batch \in SeqsUpTo(OfferedUnits, 2) : fu_include_activities(batch)

SpecInclude == InitFu /\ [][NextInclude]_vars

\* ------------------------------------------------------- CSMethodsModel
\* list.pop(i) for a 0-based i
pop(cs, i) == SubSeq(cs, 1, i) \o SubSeq(cs, i + 2, Len(cs))

\* the while loop of filter_methods, from index i on
RECURSIVE filter_loop(_, _, _)
filter_loop(cs, catalog, i) ==
    IF i < Len(cs)
    THEN IF cs[i + 1] \notin catalog
         THEN filter_loop(pop(cs, i), catalog, i)
         ELSE filter_loop(cs, catalog, i + 1)
    ELSE cs

\* filter_methods with the index advanced after a removal as well
RECURSIVE filter_loop_skipping(_, _, _)
filter_loop_skipping(cs, catalog, i) ==
    IF i < Len(cs)
    THEN IF cs[i + 1] \notin catalog
         THEN filter_loop_skipping(pop(cs, i), catalog, i + 1)
         ELSE filter_loop_skipping(cs, catalog, i + 1)
    ELSE cs

filter_methods_skipping(cs, catalog) == filter_loop_skipping(cs, catalog, 0)

\* update_cs.filter_methods(cs): the list cs after the call
filter_methods(cs, catalog) == filter_loop(cs, catalog, 0)

\* the rows CSMethodsModel.sync builds: [build_row(method) for method in ia];
\* build_row raises KeyError for a method that is not in bw.methods
m_build_rows(ia, catalog) ==
    IF \E i \in 1..Len(ia) : ia[i] \notin catalog
    THEN [rows |-> << >>, error |-> "KeyError"]
    ELSE [rows |-> ia, error |-> None]

\* the sweep leaving its loop after the first setup
sweep_first_only(store, catalog) ==
    [n \in DOMAIN store |->
        IF n = "cs1"
        THEN [store[n] EXCEPT !.ia = filter_methods(store[n].ia, catalog)]
        ELSE store[n]]

\* for name, cs in cs_controller.items(): filter_methods(cs['ia'])
sweep(store, catalog) ==
    [n \in DOMAIN store |->
        [store[n] EXCEPT !.ia = filter_methods(store[n].ia, catalog)]]

\* the number of references in ia that are absent from the catalog
Stale(ia, catalog) == Cardinality({i \in 1..Len(ia) : ia[i] \notin catalog})

\* what update_cs(name) finds: the stale references of the setup it will
\* filter, or the number of setups with stale references before a sweep
StaleFound(store, catalog, current, name) ==
    IF current # None \/ name # None
    THEN IF name \in DOMAIN store THEN Stale(store[name].ia, catalog) ELSE 0
    ELSE Cardinality({n \in DOMAIN store : Stale(store[n].ia, catalog) > 0})

m_sync_signals == <<Updated>>
m_delete_signals == <<Updated, SetupChanged>>
m_include_signals == <<Updated, SetupChanged>>

fu_unchanged ==
    UNCHANGED <<activity_controller, connections, fu_current_cs, fu_dataframe,
                fu_activities, updater>>

\* the body of update_cs(name) against the catalog of the moment
update_cs_body(name) ==
    IF m_current_cs # None \/ name # None
    THEN /\ m_current_cs' = name
         /\ IF name \notin DOMAIN cs_controller
            THEN /\ raised' = "KeyError"      \* cs_controller[self.current_cs]
                 /\ emitted' = << >>
                 /\ UNCHANGED <<cs_controller, m_dataframe>>
            ELSE LET ia == filter_methods(cs_controller[name].ia, bw_methods')
                     built == m_build_rows(ia, bw_methods')
                 IN  /\ cs_controller' = [cs_controller EXCEPT ![name].ia = ia]
                     /\ raised' = built.error
                     /\ IF built.error # None
                        THEN emitted' = << >> /\ UNCHANGED m_dataframe
                        ELSE /\ m_dataframe' = DataFrame(built.rows)
                             /\ emitted' = m_sync_signals
    ELSE /\ cs_controller' = sweep(cs_controller, bw_methods')
         /\ raised' = None
         /\ emitted' = m_sync_signals
         /\ UNCHANGED <<m_current_cs, m_dataframe>>

\* CSMethodsModel.update_cs(name); calculation_setup_selected calls it with
\* the selected name
update_cs(name) ==
    /\ UNCHANGED bw_methods
    /\ update_cs_body(name)
    /\ last' = [Op("update_cs", name, 0, 0, 0) EXCEPT
                   !.stale = StaleFound(cs_controller, bw_methods, m_current_cs, name)]
    /\ fu_unchanged /\ UNCHANGED calc

\* a method leaves the Method Catalog
methods_delete(method) ==
    /\ method \in bw_methods
    /\ bw_methods' = bw_methods \ {method}
    /\ last' = Op("methods_delete", method, 0, 0, 0)
    /\ raised' = None
    /\ emitted' = << >>
    /\ fu_unchanged
    /\ UNCHANGED <<cs_controller, m_current_cs, m_dataframe, calc>>

\* method_deleted connected to sync(self.current_cs) where the code connects
\* update_cs: the rows are rebuilt from a list that was not filtered
on_method_deleted_sync_only ==
    /\ UNCHANGED <<bw_methods, cs_controller, m_current_cs>>
    /\ IF m_current_cs \notin DOMAIN cs_controller
       THEN /\ raised' = None
            /\ emitted' = m_sync_signals
            /\ UNCHANGED m_dataframe
       ELSE LET built == m_build_rows(cs_controller[m_current_cs].ia, bw_methods)
            IN  /\ raised' = built.error
                /\ IF built.error # None
                   THEN emitted' = << >> /\ UNCHANGED m_dataframe
                   ELSE /\ m_dataframe' = DataFrame(built.rows)
                        /\ emitted' = m_sync_signals
    /\ last' = [Op("method_deleted", m_current_cs, 0, 0, 0) EXCEPT
                   !.stale = StaleFound(cs_controller, bw_methods, m_current_cs,
                                        m_current_cs)]
    /\ fu_unchanged /\ UNCHANGED calc

\* signals.method_deleted: lambda: self.update_cs(self.current_cs)
on_method_deleted ==
    /\ UNCHANGED bw_methods
    /\ update_cs_body(m_current_cs)
    /\ last' = [Op("method_deleted", m_current_cs, 0, 0, 0) EXCEPT
                   !.stale = StaleFound(cs_controller, bw_methods, m_current_cs,
                                        m_current_cs)]
    /\ fu_unchanged /\ UNCHANGED calc

\* CSMethodsModel.sync(name)
m_sync(name) ==
    /\ last' = Op("m_sync", name, 0, 0, 0)
    /\ fu_unchanged /\ UNCHANGED <<bw_methods, cs_controller, calc>>
    /\ IF name = None
       THEN /\ raised' = None
            /\ emitted' = m_sync_signals
            /\ UNCHANGED <<m_current_cs, m_dataframe>>
       ELSE IF name \notin DOMAIN cs_controller
       THEN /\ raised' = "AssertionError"
            /\ emitted' = << >>
            /\ UNCHANGED <<m_current_cs, m_dataframe>>
       ELSE LET built == m_build_rows(cs_controller[name].ia, bw_methods)
            IN  /\ m_current_cs' = name
                /\ raised' = built.error
                /\ IF built.error # None
                   THEN emitted' = << >> /\ UNCHANGED m_dataframe
                   ELSE /\ m_dataframe' = DataFrame(built.rows)
                        /\ emitted' = m_sync_signals

\* CSGenericModel.relocateRow on the methods table
m_relocateRow(row_source, row_target) ==
    /\ ~m_dataframe.isNone
    /\ row_source \in 0..(Len(m_dataframe.rows) - 1)
    /\ row_target \in 0..Len(m_dataframe.rows)
    /\ LET df == DataFrame(relocateRow(m_dataframe.rows, row_source, row_target))
       IN  /\ m_dataframe' = df
           /\ emitted' = relocate_signals
           /\ cs_controller' = MDeliver(relocate_signals, cs_controller, m_current_cs, df)
    /\ last' = Op("relocateRow", "m", row_source, row_target, 0)
    /\ raised' = None
    /\ fu_unchanged /\ UNCHANGED <<bw_methods, m_current_cs, calc>>

\* CSMethodsModel.delete_rows(proxies), rows = the selected row numbers
m_delete_rows(rows) ==
    /\ ~m_dataframe.isNone
    /\ rows \subseteq 0..(Len(m_dataframe.rows) - 1)
    /\ LET df == DataFrame(drop(m_dataframe.rows, rows))
       IN  /\ m_dataframe' = df
           /\ emitted' = m_delete_signals
           /\ cs_controller' = MDeliver(m_delete_signals, cs_controller, m_current_cs, df)
    /\ last' = Op("delete_rows", "m", 0, 0, 0)
    /\ raised' = None
    /\ fu_unchanged /\ UNCHANGED <<bw_methods, m_current_cs, calc>>

\* CSMethodsModel.include_methods(new_methods)
m_include_methods(new_methods) ==
    /\ Len(methods(m_dataframe)) + Len(new_methods) <= MaxIa
    /\ LET old_methods == {methods(m_dataframe)[i] : i \in 1..Len(methods(m_dataframe))}
           data == m_build_rows(SelectSeq(new_methods, LAMBDA m : m \notin old_methods),
                                bw_methods)
           df == DataFrame(methods(m_dataframe) \o data.rows)
       IN  /\ raised' = data.error
           /\ IF data.error = None /\ data.rows # << >>
              THEN /\ m_dataframe' = df
                   /\ emitted' = m_include_signals
                   /\ cs_controller' = MDeliver(m_include_signals, cs_controller,
                                                m_current_cs, df)
              ELSE /\ emitted' = << >>
                   /\ UNCHANGED <<m_dataframe, cs_controller>>
    /\ last' = Op("include_methods", "m", 0, 0, 0)
    /\ fu_unchanged /\ UNCHANGED <<bw_methods, m_current_cs, calc>>

InitStoreM ==
    {[n \in CSNames |-> [inv |-> << >>,
                         ia |-> IF n = "cs1" THEN ia1 ELSE <<"m1", "m2">>]] :
        ia1 \in SeqsUpTo(OfferedMethods, MaxIa)}

InitM ==
    /\ activity_controller = [k \in Keys |-> "process"]
    /\ connections = [k \in Keys |-> 0]
    /\ cs_controller \in InitStoreM
    /\ bw_methods = OfferedMethods
    /\ fu_current_cs = None
    /\ fu_dataframe = NoDataFrame
    /\ fu_activities = << >>
    /\ m_current_cs = None
    /\ m_dataframe = NoDataFrame
    /\ emitted = << >>
    /\ raised = None
    /\ last = Op("init", None, 0, 0, 0)
    /\ calc = NoCalc
    /\ updater = NoUpdater

NextM ==
    \/ \E name \in CSNames \cup {GhostName, None} : update_cs(name)
    \/ \E method \in OfferedMethods : methods_delete(method)
    \/ on_method_deleted
    \/ \E name \in CSNames \cup {GhostName, None} : m_sync(name)
    \/ \E rows \in SUBSET (0..(MaxIa - 1)) : m_delete_rows(rows)
    \/ \E batch \in SeqsUpTo(OfferedMethods, 2) : m_include_methods(batch)

SpecM == InitM /\ [][NextM]_vars

\* the events the methods table is connected to: a setup of the store is
\* selected, a method leaves the catalog, method_deleted is delivered
NextEvents ==
    \/ \E name \in CSNames : update_cs(name)
    \/ \E method \in OfferedMethods : methods_delete(method)
    \/ on_method_deleted

SpecEvents == InitM /\ [][NextEvents]_vars

\* both tables on a store whose current setup holds any sequence of
\* functional units of processes or any sequence of catalog methods (the two
\* tables do not read each other's rows); the setup is selected, then rows
\* are relocated
InitRelocate ==
    /\ activity_controller = [k \in Keys |-> "process"]
    /\ connections = [k \in Keys |-> 0]
    /\ \E inv1 \in SeqsUpTo(FunctionalUnits, MaxRows),
          ia1 \in SeqsUpTo(Methods, MaxRelocate) :
          /\ inv1 = << >> \/ ia1 = << >>
          /\ cs_controller = [n \in CSNames |->
                                [inv |-> IF n = "cs1" THEN inv1 ELSE << >>,
                                 ia |-> IF n = "cs1" THEN ia1 ELSE << >>]]
    /\ bw_methods = Methods
    /\ fu_current_cs = None
    /\ fu_dataframe = NoDataFrame
    /\ fu_activities = << >>
    /\ m_current_cs = None
    /\ m_dataframe = NoDataFrame
    /\ emitted = << >>
    /\ raised = None
    /\ last = Op("init", None, 0, 0, 0)
    /\ calc = NoCalc
    /\ updater = NoUpdater

NextRelocate ==
    \/ load("cs1")
    \/ update_cs("cs1")
    \/ \E i \in 0..MaxRows, j \in 0..MaxRows : fu_relocateRow(i, j)
    \/ \E i \in 0..MaxRelocate, j \in 0..MaxRelocate : m_relocateRow(i, j)

SpecRelocate == InitRelocate /\ [][NextRelocate]_vars

\* ------------------------------------------------- do_LCA_calculations
\* what a call into a calculation engine can raise
EngineExceptions ==
    {"KeyError", "AssertionError", "ValueError", "CriticalCalculationError",
     "ScenarioExchangeNotFoundError", "ZeroDivisionError"}
Ok == "ok"
EngineMessage == "message of the engine"
NoOverlapMessage ==
    "Constructed LCA matrix does not contain any exchanges from the superstructure"
RestoreCursor == "QApplication.restoreOverrideCursor"

\* an exception: its type, the two arguments of BW2CalcError (the second is
\* the message for the other types), and who created the exception object
Error(type, title, detail, origin) ==
    [type |-> type, title |-> title, detail |-> detail, origin |-> origin]

\* the exception an engine call raises
EngineError(type) == Error(type, None, EngineMessage, "engine")

\* The except clauses of do_LCA_calculations around the construction of the
\* engine and of its contribution analysis: the calls made before the raise
\* and the exception that leaves the function.
Handled(calls, error) == [calls |-> calls, error |-> error]

\* simple: except KeyError
simple_key_error(e) ==
    Handled(<< >>, Error("BW2CalcError", "LCA Failed", e.detail, "orchestrator"))

\* scenario: except AssertionError
scenario_assertion_error(e) ==
    Handled(<<RestoreCursor>>,
            Error("BW2CalcError", "Scenario LCA failed.", e.detail, "orchestrator"))

\* the ValueError clause passing on str(e) as the other clauses do
scenario_value_error_str(e) ==
    Handled(<<RestoreCursor>>,
            Error("BW2CalcError", "Scenario LCA failed.", e.detail, "orchestrator"))

\* scenario: except ValueError
scenario_value_error(e) ==
    Handled(<<RestoreCursor>>,
            Error("BW2CalcError", "Scenario LCA failed.", NoOverlapMessage,
                  "orchestrator"))

\* scenario: except KeyError
scenario_key_error(e) ==
    Handled(<<RestoreCursor>>,
            Error("BW2CalcError", "LCA Failed", e.detail, "orchestrator"))

\* scenario: except CriticalCalculationError: raise Exception(e); the new
\* exception has e as its argument, str() of it is the message of e
scenario_critical_error(e) ==
    Handled(<<RestoreCursor>>, Error("Exception", None, e.detail, "orchestrator"))

\* scenario: except ScenarioExchangeNotFoundError: raise CriticalCalculationError
scenario_exchange_not_found(e) ==
    Handled(<<RestoreCursor>>,
            Error("CriticalCalculationError", None, None, "orchestrator"))

\* the clause that takes the exception e, if any: an exception no clause
\* names leaves the function as it is
except_clause(calculation_type, e) ==
    IF calculation_type = "simple"
    THEN IF e.type = "KeyError" THEN simple_key_error(e) ELSE Handled(<< >>, e)
    ELSE IF e.type = "AssertionError" THEN scenario_assertion_error(e)
    ELSE IF e.type = "ValueError" THEN scenario_value_error(e)
    ELSE IF e.type = "KeyError" THEN scenario_key_error(e)
    ELSE IF e.type = "CriticalCalculationError" THEN scenario_critical_error(e)
    ELSE IF e.type = "ScenarioExchangeNotFoundError" THEN scenario_exchange_not_found(e)
    ELSE Handled(<< >>, e)

\* the function is left by an exception; thrown is the type of the exception
\* an engine call raised, if that is how the failure began
Raise(c, calls, error, thrown) ==
    [c EXCEPT !.pc = "raised", !.trace = @ \o calls \o <<"raise">>,
              !.error = error, !.thrown = thrown]

calc_unchanged ==
    /\ fu_unchanged
    /\ UNCHANGED <<cs_controller, bw_methods, m_current_cs, m_dataframe,
                   emitted, raised, last>>

\* do_LCA_calculations with the else branch left out: any other calculation
\* type goes on like a known one
do_LCA_calculations_no_else(cs_name, calculation_type) ==
    /\ calc.pc = "idle"
    /\ calc' = [calc EXCEPT !.pc = "mlca", !.cs_name = cs_name,
                            !.calculation_type = calculation_type]
    /\ calc_unchanged

\* do_LCA_calculations(data): reads cs_name and calculation_type, branches
do_LCA_calculations(cs_name, calculation_type) ==
    /\ calc.pc = "idle"
    /\ calc' = IF calculation_type \in {"simple", "scenario"}
               THEN [calc EXCEPT !.pc = "mlca", !.cs_name = cs_name,
                                 !.calculation_type = calculation_type]
               ELSE Raise([calc EXCEPT !.cs_name = cs_name,
                                       !.calculation_type = calculation_type],
                          <<"log.error">>,
                          Error("ValueError", None, None, "orchestrator"), None)
    /\ calc_unchanged

\* mlca = MLCA(cs_name) / SuperstructureMLCA(cs_name, df); the engine reads
\* the setup from the store, so it cannot be built for an unknown name
construct_mlca(outcome) ==
    /\ calc.pc = "mlca"
    /\ outcome = Ok => calc.cs_name \in DOMAIN cs_controller
    /\ calc' = IF outcome = Ok
               THEN [calc EXCEPT !.pc = "contributions", !.trace = Append(@, "mlca")]
               ELSE LET x == except_clause(calc.calculation_type, EngineError(outcome))
                    IN  Raise(calc, x.calls, x.error, outcome)
    /\ calc_unchanged

\* contributions = Contributions(mlca) / SuperstructureContributions(mlca)
construct_contributions(outcome) ==
    /\ calc.pc = "contributions"
    /\ calc' = IF outcome = Ok
               THEN [calc EXCEPT !.pc = "calculate",
                                 !.trace = Append(@, "contributions")]
               ELSE LET x == except_clause(calc.calculation_type, EngineError(outcome))
                    IN  Raise(calc, x.calls, x.error, outcome)
    /\ calc_unchanged

\* mlca.calculate(), outside every try block
calculate(outcome) ==
    /\ calc.pc = "calculate"
    /\ calc' = IF outcome = Ok
               THEN [calc EXCEPT !.pc = "demand", !.trace = Append(@, "mlca.calculate")]
               ELSE Raise([calc EXCEPT !.trace = Append(@, "mlca.calculate")],
                          << >>, EngineError(outcome), outcome)
    /\ calc_unchanged

\* read_setup handing the whole 'inv' list to the stochastic companion
read_setup_whole_inv ==
    /\ calc.pc = "demand"
    /\ calc' = IF calc.cs_name \notin DOMAIN cs_controller
               THEN Raise(calc, << >>, Error("KeyError", None, calc.cs_name, "store"),
                          None)
               ELSE IF cs_controller[calc.cs_name].inv = << >>
               THEN Raise(calc, << >>,
                          Error("IndexError", None, "list index out of range", "store"),
                          None)
               ELSE [calc EXCEPT !.pc = "mc",
                                 !.demand = cs_controller[calc.cs_name].inv,
                                 !.methods = cs_controller[calc.cs_name].ia]
    /\ calc_unchanged

\* demand = bd.calculation_setups[cs_name]["inv"][0]
\* methods = bd.calculation_setups[cs_name]["ia"]
read_setup ==
    /\ calc.pc = "demand"
    /\ calc' = IF calc.cs_name \notin DOMAIN cs_controller
               THEN Raise(calc, << >>, Error("KeyError", None, calc.cs_name, "store"),
                          None)
               ELSE IF cs_controller[calc.cs_name].inv = << >>
               THEN Raise(calc, << >>,
                          Error("IndexError", None, "list index out of range", "store"),
                          None)
               ELSE [calc EXCEPT !.pc = "mc",
                                 !.demand = <<cs_controller[calc.cs_name].inv[1]>>,
                                 !.methods = cs_controller[calc.cs_name].ia]
    /\ calc_unchanged

\* mc = MonteCarloLCA(demand, lcia_methods=methods); return mlca, contributions, mc
construct_mc(outcome) ==
    /\ calc.pc = "mc"
    /\ calc' = IF outcome = Ok
               THEN [calc EXCEPT !.pc = "returned",
                                 !.trace = Append(@, "MonteCarloLCA")]
               ELSE Raise(calc, << >>, EngineError(outcome), outcome)
    /\ calc_unchanged

CalculationTypes == {"simple", "scenario", "monte carlo"}

InitStoreCalc ==
    {[n \in CSNames |-> [inv |-> IF n = "cs1" THEN inv1 ELSE << >>,
                         ia |-> IF n = "cs1" THEN <<"m1">> ELSE <<"m1", "m2">>]] :
        inv1 \in SeqsUpTo(FunctionalUnits, MaxInv)}

InitCalc ==
    /\ activity_controller = [k \in Keys |-> "process"]
    /\ connections = [k \in Keys |-> 0]
    /\ cs_controller \in InitStoreCalc
    /\ bw_methods = Methods
    /\ fu_current_cs = None
    /\ fu_dataframe = NoDataFrame
    /\ fu_activities = << >>
    /\ m_current_cs = None
    /\ m_dataframe = NoDataFrame
    /\ emitted = << >>
    /\ raised = None
    /\ last = Op("init", None, 0, 0, 0)
    /\ calc = NoCalc
    /\ updater = NoUpdater

NextCalc ==
    \/ \E cs_name \in CSNames \cup {GhostName}, calculation_type \in CalculationTypes :
          do_LCA_calculations(cs_name, calculation_type)
    \/ \E outcome \in {Ok} \cup EngineExceptions : construct_mlca(outcome)
    \/ \E outcome \in {Ok} \cup EngineExceptions : construct_contributions(outcome)
    \/ \E outcome \in {Ok} \cup EngineExceptions : calculate(outcome)
    \/ read_setup
    \/ \E outcome \in {Ok} \cup EngineExceptions : construct_mc(outcome)

SpecCalc == InitCalc /\ [][NextCalc]_vars

\* ------------------------------------- both tables: selection and deletion
\* signals.calculation_setup_selected.emit(name): CSActivityModel.load and
\* CSMethodsModel.update_cs are both connected to it
InitTables ==
    /\ activity_controller \in InitRegistry
    /\ connections = [k \in Keys |-> 0]
    /\ \E inv1 \in SeqsUpTo(FunctionalUnits, MaxInv) :
          cs_controller = [n \in CSNames |->
              [inv |-> IF n = "cs1" THEN inv1 ELSE << >>,
               ia |-> IF n = "cs1" THEN <<"m1", "m2">> ELSE << >>]]
    /\ bw_methods = OfferedMethods
    /\ fu_current_cs = None
    /\ fu_dataframe = NoDataFrame
    /\ fu_activities = << >>
    /\ m_current_cs = None
    /\ m_dataframe = NoDataFrame
    /\ emitted = << >>
    /\ raised = None
    /\ last = Op("init", None, 0, 0, 0)
    /\ calc = NoCalc
    /\ updater = NoUpdater

NextTables ==
    \/ load("cs1")
    \/ sync
    \/ \E key \in Keys, state \in EntityStates : entity_changed(key, state)
    \/ \E rows \in SUBSET (0..(MaxRows - 1)) : fu_delete_rows(rows)
    \/ update_cs("cs1")
    \/ \E rows \in SUBSET (0..(MaxIa - 1)) : m_delete_rows(rows)

SpecTables == InitTables /\ [][NextTables]_vars

\* either table: a setup is selected, then rows are relocated, deleted and
\* included.  The operations of one table leave the other table alone, so
\* the runs taken are those that use one of the two tables.
NextRows ==
    \/ /\ m_dataframe.isNone
       /\ \/ load("cs1")
          \/ \E i \in 0..MaxRows, j \in 0..MaxRows : fu_relocateRow(i, j)
          \/ \E rows \in SUBSET (0..(MaxRows - 1)) : fu_delete_rows(rows)
          \/ \E batch \in SeqsUpTo(FunctionalUnits, 2) : fu_include_activities(batch)
    \/ /\ fu_dataframe.isNone
       /\ \/ update_cs("cs1")
          \/ \E i \in 0..MaxIa, j \in 0..MaxIa : m_relocateRow(i, j)
          \/ \E rows \in SUBSET (0..(MaxIa - 1)) : m_delete_rows(rows)
          \/ \E batch \in SeqsUpTo(OfferedMethods, 2) : m_include_methods(batch)

SpecRows == InitTables /\ [][NextRows]_vars

\* ------------------------------------------------ SQLiteBackend.delete
\* the databases, the activities and exchanges that can have a virtual
\* counterpart (a signal object in activity_updater / exchange_updater), and
\* the databases they name
Databases == {"db1", "db2"}
ActivityIds == {"a1", "a2", "a3"}
ExchangeIds == {"e1", "e2", "e3"}
database == [a \in ActivityIds |-> IF a = "a3" THEN "db2" ELSE "db1"]
input_database == [e \in ExchangeIds |-> IF e = "e1" THEN "db1" ELSE "db2"]
output_database == [e \in ExchangeIds |-> IF e = "e3" THEN "db2" ELSE "db1"]

\* the orders in which iterating over a collection can yield its elements
Orders(S) ==
    {s \in SeqsUpTo(S, Cardinality(S)) :
        Len(s) = Cardinality(S) /\ \A x \in S : \E i \in 1..Len(s) : s[i] = x}

\* one call made by delete: the two comprehensions, the deletion of the
\* superclass, and each emitLater with its signal and the entity it is for
Call(call, signal, entity) == [call |-> call, signal |-> signal, entity |-> entity]

\* for x in list: q.emitLater(signal, x)
emitLater(signal, list) == [i \in 1..Len(list) |-> Call("emitLater", signal, list[i])]

\* the tracked activities of the database name
affected_acts(u, name) == {a \in u.activity_updater : database[a] = name}

\* the tracked exchanges that start or end in the database name
affected_excs(u, name) ==
    {e \in u.exchange_updater :
        input_database[e] = name \/ output_database[e] = name}

\* patched().delete(keep_params, warn): the database, its activities and
\* the exchanges of its activities are removed
patched_delete(u, name) ==
    [u EXCEPT !.databases = @ \ {name},
              !.datasets = {d \in @ :
                  /\ d \in ActivityIds => database[d] # name
                  /\ d \in ExchangeIds => output_database[d] # name}]

\* delete with the comprehensions moved below the deletion of the superclass
delete_then_capture(name) ==
    /\ name \in updater.databases
    /\ LET u == patched_delete(updater, name)
       IN  \E acts \in Orders(affected_acts(u, name)),
              excs \in Orders(affected_excs(u, name)) :
              LET qdb == IF name \in u.database_updater THEN <<name>> ELSE << >>
              IN  IF \E i \in 1..Len(acts) : acts[i] \notin u.datasets
                  THEN updater' = [u EXCEPT !.name = name, !.raised = "DoesNotExist",
                          !.trace = <<Call("patched().delete", None, name),
                                      Call("acts", None, name)>>]
                  ELSE IF \E i \in 1..Len(excs) : excs[i] \notin u.datasets
                  THEN updater' = [u EXCEPT !.name = name, !.raised = "DoesNotExist",
                          !.trace = <<Call("patched().delete", None, name),
                                      Call("acts", None, name),
                                      Call("excs", None, name)>>]
                  ELSE updater' = [u EXCEPT !.name = name, !.raised = None,
                          !.trace = <<Call("patched().delete", None, name),
                                      Call("acts", None, name),
                                      Call("excs", None, name)>>
                                    \o emitLater("changed", qdb) \o emitLater("deleted", qdb)
                                    \o emitLater("changed", acts) \o emitLater("deleted", acts)
                                    \o emitLater("changed", excs) \o emitLater("deleted", excs)]
    /\ UNCHANGED <<activity_controller, connections, cs_controller, bw_methods,
                   fu_current_cs, fu_dataframe, fu_activities, m_current_cs,
                   m_dataframe, emitted, raised, last, calc>>

\* SQLiteBackend.delete(): acts and excs are built with get_by_id, which
\* raises DoesNotExist for a counterpart whose dataset is gone; the order of
\* the two lists is the iteration order of the updaters
delete(name) ==
    /\ name \in updater.databases
    /\ \E acts \in Orders(affected_acts(updater, name)),
          excs \in Orders(affected_excs(updater, name)) :
          LET qdb == IF name \in updater.database_updater THEN <<name>> ELSE << >>
          IN  IF \E i \in 1..Len(acts) : acts[i] \notin updater.datasets
              THEN updater' = [updater EXCEPT !.name = name, !.raised = "DoesNotExist",
                      !.trace = <<Call("acts", None, name)>>]
              ELSE IF \E i \in 1..Len(excs) : excs[i] \notin updater.datasets
              THEN updater' = [updater EXCEPT !.name = name, !.raised = "DoesNotExist",
                      !.trace = <<Call("acts", None, name), Call("excs", None, name)>>]
              ELSE updater' = [patched_delete(updater, name) EXCEPT
                      !.name = name, !.raised = None,
                      !.trace = <<Call("acts", None, name),
                                  Call("excs", None, name),
                                  Call("patched().delete", None, name)>>
                                \o emitLater("changed", qdb) \o emitLater("deleted", qdb)
                                \o emitLater("changed", acts) \o emitLater("deleted", acts)
                                \o emitLater("changed", excs) \o emitLater("deleted", excs)]
    /\ UNCHANGED <<activity_controller, connections, cs_controller, bw_methods,
                   fu_current_cs, fu_dataframe, fu_activities, m_current_cs,
                   m_dataframe, emitted, raised, last, calc>>

\* both databases with all their datasets; any of the databases, activities
\* and exchanges has a virtual counterpart
InitDb ==
    /\ activity_controller = [k \in Keys |-> "process"]
    /\ connections = [k \in Keys |-> 0]
    /\ cs_controller = [n \in CSNames |-> [inv |-> << >>, ia |-> << >>]]
    /\ bw_methods = Methods
    /\ fu_current_cs = None
    /\ fu_dataframe = NoDataFrame
    /\ fu_activities = << >>
    /\ m_current_cs = None
    /\ m_dataframe = NoDataFrame
    /\ emitted = << >>
    /\ raised = None
    /\ last = Op("init", None, 0, 0, 0)
    /\ calc = NoCalc
    /\ \E dbs \in SUBSET Databases, acts \in SUBSET ActivityIds,
          excs \in SUBSET ExchangeIds :
          updater = [NoUpdater EXCEPT !.databases = Databases,
                                      !.datasets = ActivityIds \cup ExchangeIds,
                                      !.database_updater = dbs,
                                      !.activity_updater = acts,
                                      !.exchange_updater = excs]

NextDb == \E name \in Databases : delete(name)

SpecDb == InitDb /\ [][NextDb]_vars

\* ================================================================ claims
\* s without its element at position p
RemoveAt(s, p) == SubSeq(s, 1, p - 1) \o SubSeq(s, p + 1, Len(s))

\* the functional units of fus whose key resolves to an existing entity of
\* kind 'process', in the order of fus
ProcessUnits(registry, fus) ==
    SelectSeq(fus, LAMBDA fu : Lookup(registry, fu.key) \in
                                   {"process", "process_none_field"})

\* C1: after load(S) the rows of the functional-unit table are exactly the
\* functional units of S's 'inv' whose key resolves to an existing entity of
\* kind 'process', in the order of 'inv' (none for an empty 'inv').
C1_LoadShowsProcessUnits ==
    (last.op = "load" /\ raised = None) =>
        activities(fu_dataframe) =
            ProcessUnits(activity_controller, Inv(cs_controller, fu_current_cs))

\* C2: every entity's change channel holds at most one connection to sync
\* (one per functional unit of the current setup, should the setup name the
\* entity more than once), and a change of an entity runs sync as often.
C2_OneSubscriptionPerEntity ==
    \A k \in Keys :
        LET fus == Inv(cs_controller, fu_current_cs)
            named == Cardinality({i \in 1..Len(fus) : fus[i].key = k})
            allowed == IF named > 1 THEN named ELSE 1
        IN  /\ connections[k] <= allowed
            /\ (last.op = "entity_changed" /\ last.name = k) => last.runs <= allowed

\* C3: relocateRow(i, j) keeps the rows, puts the moved row immediately before
\* the row that was at index j (last when j = n), and keeps the order of all
\* other rows; with i = j the table is left as it was.
Relocated(old, new, i, j) ==
    /\ Len(new) = Len(old)
    /\ \E p \in 1..Len(new) :
          /\ new[p] = old[i + 1]
          /\ RemoveAt(new, p) = RemoveAt(old, i + 1)
          /\ j = Len(old) => p = Len(new)
          /\ (j < Len(old) /\ j # i) => (p < Len(new) /\ new[p + 1] = old[j + 1])
    /\ j = i => new = old

C3_RelocateKeepsOrder ==
    [][last'.op = "relocateRow" =>
          IF last'.name = "fu"
          THEN Relocated(fu_dataframe.rows, fu_dataframe'.rows, last'.src, last'.tgt)
          ELSE Relocated(m_dataframe.rows, m_dataframe'.rows, last'.src, last'.tgt)]_vars

\* a row of a table of three different rows was moved down, past one row
C3_Witness ==
    /\ last.op = "relocateRow" /\ last.name = "m" /\ last.src = 0 /\ last.tgt = 2
    /\ Len(m_dataframe.rows) = 3
    /\ Cardinality({m_dataframe.rows[i] : i \in 1..3}) = 3

\* a is b with some elements left out
RECURSIVE IsSubseq(_, _)
IsSubseq(a, b) ==
    IF a = << >> THEN TRUE
    ELSE IF b = << >> THEN FALSE
    ELSE IF Head(a) = Head(b) THEN IsSubseq(Tail(a), Tail(b))
    ELSE IsSubseq(a, Tail(b))

\* delete_rows returned, its notifications have been handled
DeleteSettled == last.op = "delete_rows" /\ raised = None

C4_StoreMatchesRows ==
    DeleteSettled =>
        /\ (last.name = "fu" /\ fu_current_cs \in DOMAIN cs_controller) =>
               cs_controller[fu_current_cs].inv = activities(fu_dataframe)
        /\ (last.name = "m" /\ m_current_cs \in DOMAIN cs_controller) =>
               cs_controller[m_current_cs].ia = methods(m_dataframe)

C4_NoRowComesBack ==
    DeleteSettled /\ raised' = None =>
        /\ (last.name = "fu" /\ last'.op \in {"sync", "load", "entity_changed"}) =>
               IsSubseq(activities(fu_dataframe'), activities(fu_dataframe))
        /\ (last.name = "m" /\ last'.op = "update_cs") =>
               IsSubseq(methods(m_dataframe'), methods(m_dataframe))

\* C4: once delete_rows of either table has settled, the current setup's
\* 'inv' / 'ia' in the store equals the table's rows, and a following sync or
\* reload of the setup shows no row the table did not show after the delete.
C4_DeleteReachesStore == []C4_StoreMatchesRows /\ [][C4_NoRowComesBack]_vars

\* a row of a process that is still in the registry was deleted: the process
\* is tracked, but neither the table nor the setup's 'inv' names it
C4_Witness ==
    /\ DeleteSettled /\ last.name = "fu" /\ fu_current_cs = "cs1"
    /\ \E i \in 1..Len(fu_activities) :
          /\ activity_controller[fu_activities[i]] = "process"
          /\ \A j \in 1..Len(fu_dataframe.rows) :
                fu_dataframe.rows[j].key # fu_activities[i]
          /\ \A j \in 1..Len(cs_controller["cs1"].inv) :
                cs_controller["cs1"].inv[j].key # fu_activities[i]

\* C5: update_cs(None) while a setup is active keeps that setup current, does
\* not fail, leaves its 'ia' without stale references and shows it.
C5_ReconcileKeepsSetup ==
    [][(last'.op = "update_cs" /\ last'.name = None
           /\ m_current_cs \in DOMAIN cs_controller) =>
          /\ m_current_cs' = m_current_cs
          /\ raised' = None
          /\ Stale(cs_controller'[m_current_cs].ia, bw_methods) = 0
          /\ methods(m_dataframe') = cs_controller'[m_current_cs].ia]_vars

\* C6: update_cs(name) for a setup of the store leaves in its 'ia' exactly the
\* references that are in the catalog, in their order, and the table shows
\* that sequence.
C6_ReconcileFilters ==
    [][(last'.op \in {"update_cs", "method_deleted"}
           /\ last'.name \in DOMAIN cs_controller) =>
          LET kept == SelectSeq(cs_controller[last'.name].ia,
                                LAMBDA m : m \in bw_methods)
          IN  /\ cs_controller'[last'.name].ia = kept
              /\ ~m_dataframe'.isNone
              /\ m_dataframe'.rows = kept
              /\ raised' = None]_vars

\* update_cs removed two stale references from the selected setup
C6_Witness ==
    /\ last.op = "update_cs" /\ last.name \in CSNames /\ last.stale >= 2
    /\ raised = None /\ m_current_cs = last.name

\* C7: update_cs(None) with no active setup leaves no setup of the store with
\* a reference that is absent from the catalog, and leaves current_cs alone.
C7_GlobalSweep ==
    [][(last'.op \in {"update_cs", "method_deleted"} /\ last'.name = None
           /\ m_current_cs = None) =>
          /\ \A n \in DOMAIN cs_controller :
                Stale(cs_controller'[n].ia, bw_methods) = 0
          /\ m_current_cs' = m_current_cs
          /\ raised' = None]_vars

\* a sweep found two setups with stale references
C7_Witness ==
    /\ last.op = "update_cs" /\ last.name = None /\ last.stale = 2
    /\ raised = None /\ m_current_cs = None

\* position of the first x in the sequence s, 0 if there is none
First(s, x) ==
    IF \E i \in 1..Len(s) : s[i] = x
    THEN CHOOSE i \in 1..Len(s) : s[i] = x /\ \A j \in 1..(i - 1) : s[j] # x
    ELSE 0

\* a run in mode simple or scenario was left by an exception
CalcFailed ==
    calc.pc = "raised" /\ calc.calculation_type \in {"simple", "scenario"}

\* C8: on every failure path of a simple or scenario run the busy cursor is
\* restored exactly once, before the error leaves the function.
C8_CursorRestoredOnFailure ==
    CalcFailed =>
        /\ Count(calc.trace, RestoreCursor) = 1
        /\ First(calc.trace, RestoreCursor) < First(calc.trace, "raise")

\* a scenario run failed because the construction of the engine or of its
\* contribution analysis raised the exception type thrown
ScenarioConstructionFailed(thrown) ==
    /\ calc.pc = "raised" /\ calc.calculation_type = "scenario"
    /\ calc.thrown = thrown
    /\ First(calc.trace, "mlca.calculate") = 0

NothingComputed ==
    /\ First(calc.trace, "mlca.calculate") = 0
    /\ First(calc.trace, "MonteCarloLCA") = 0
    /\ calc.demand = << >>

\* the rows of the failure table on which claim and code agree
C9_FailureTable ==
    /\ ScenarioConstructionFailed("AssertionError") =>
          /\ calc.error.type = "BW2CalcError"
          /\ calc.error.title = "Scenario LCA failed."
          /\ calc.error.detail = EngineMessage
    /\ ScenarioConstructionFailed("ValueError") =>
          /\ calc.error.type = "BW2CalcError"
          /\ calc.error.title = "Scenario LCA failed."
          /\ calc.error.detail = NoOverlapMessage
    /\ ScenarioConstructionFailed("KeyError") =>
          /\ calc.error.type = "BW2CalcError"
          /\ calc.error.title = "LCA Failed"
          /\ calc.error.detail = EngineMessage
    /\ ScenarioConstructionFailed("ScenarioExchangeNotFoundError") =>
          calc.error.type = "CriticalCalculationError"
    /\ \A thrown \in {"AssertionError", "ValueError", "KeyError",
                      "CriticalCalculationError", "ScenarioExchangeNotFoundError"} :
          ScenarioConstructionFailed(thrown) => NothingComputed

C10_OnlyTypedErrors ==
    calc.pc = "raised" => calc.error.origin = "orchestrator"

\* the calls a run that returns has made, in order
SuccessfulTrace == <<"mlca", "contributions", "mlca.calculate", "MonteCarloLCA">>

\* C11: a run that returns has constructed the engine and its contribution
\* analysis, then called the engine's calculate() once, then constructed the
\* Monte Carlo companion from entry zero of the setup's 'inv' alone and the
\* setup's whole 'ia' list; no other call (none of the companion) was made.
C11_SuccessfulRunOrder ==
    calc.pc = "returned" =>
        /\ calc.calculation_type \in {"simple", "scenario"}
        /\ calc.trace = SuccessfulTrace
        /\ calc.cs_name \in DOMAIN cs_controller
        /\ calc.demand = <<cs_controller[calc.cs_name].inv[1]>>
        /\ calc.methods = cs_controller[calc.cs_name].ia

\* a run on a setup of two functional units returned
C11_Witness ==
    /\ calc.pc = "returned"
    /\ Len(cs_controller[calc.cs_name].inv) = 2
    /\ Len(calc.demand) = 1

\* a run was started with a calculation type that is neither simple nor
\* scenario
UnknownMode ==
    calc.pc # "idle" /\ calc.calculation_type \notin {"simple", "scenario"}

\* C12: a run with any other calculation type is left by a ValueError at
\* once: the only calls are the log entry and the raise, nothing was built
\* or computed, no setup was read, and the store is as it was.
C12_UnknownModeState ==
    UnknownMode =>
        /\ calc.pc = "raised"
        /\ calc.error.type = "ValueError"
        /\ calc.trace = <<"log.error", "raise">>
        /\ calc.demand = << >> /\ calc.methods = << >>

C12_UnknownModeStep ==
    (calc.pc = "idle" /\ calc'.calculation_type \notin {"simple", "scenario"}) =>
        /\ calc'.pc = "raised"
        /\ cs_controller' = cs_controller

C12_UnknownModeFails == []C12_UnknownModeState /\ [][C12_UnknownModeStep]_vars

\* a run with calculation type 'monte carlo' on an existing setup has failed
C12_Witness ==
    /\ UnknownMode /\ calc.pc = "raised"
    /\ calc.cs_name = "cs1" /\ cs_controller["cs1"].inv # << >>

\* new is old followed by rows that were added
Extends(old, new) ==
    Len(new) >= Len(old) /\ SubSeq(new, 1, Len(old)) = old

\* C13: an include emits only if it added a row, and every row it adds is
\* the row of a resolved entity: offered functional units that are present
\* already or whose key does not resolve to a process add nothing and emit
\* nothing.
C13_IncludeStep ==
    /\ last'.op = "include_activities" =>
          /\ Extends(fu_dataframe.rows, fu_dataframe'.rows)
          /\ \A i \in (Len(fu_dataframe.rows) + 1)..Len(fu_dataframe'.rows) :
                subscribes(activity_controller, fu_dataframe'.rows[i].key)
          /\ emitted' # << >> => Len(fu_dataframe'.rows) > Len(fu_dataframe.rows)
    /\ (last'.op = "include_methods" /\ raised' = None) =>
          /\ Extends(methods(m_dataframe), methods(m_dataframe'))
          /\ emitted' # << >> =>
                Len(methods(m_dataframe')) > Len(methods(m_dataframe))

C13_IncludeEmitsOnlyOnAdd == [][C13_IncludeStep]_vars

\* the keys of the rows of the functional-unit table
RowKeys(df) == {df.rows[i].key : i \in 1..Len(df.rows)}

\* C14: an include_activities that is offered only functional units whose
\* key is a row key already leaves the rows (the amounts of those keys
\* included), the subscriptions and the store as they are and emits nothing;
\* so does the second of two includes of the same functional units.
C14_IncludeStep ==
    (/\ last'.op = "include_activities"
     /\ last'.offered # << >>
     /\ \A i \in 1..Len(last'.offered) :
           last'.offered[i].key \in RowKeys(fu_dataframe)) =>
        /\ fu_dataframe' = fu_dataframe
        /\ connections' = connections
        /\ fu_activities' = fu_activities
        /\ cs_controller' = cs_controller
        /\ emitted' = << >>

C14_IncludeIdempotent == [][C14_IncludeStep]_vars

\* the table has a row for k1 with the amount of the store and was offered
\* k1 with another amount
C14_Witness ==
    /\ last.op = "include_activities"
    /\ last.offered = <<FunctionalUnit("k1", OtherAmount)>>
    /\ \E i \in 1..Len(fu_dataframe.rows) :
          fu_dataframe.rows[i].key = "k1" /\ fu_dataframe.rows[i].Amount = "1.0"
    /\ emitted = << >>

\* C15: load of a name the store does not hold raises AssertionError and
\* leaves the current setup, the rows and the subscriptions as they were;
\* sync with no setup loaded raises AssertionError and emits nothing.
C15_FailStep ==
    /\ (last'.op = "load" /\ last'.name \notin DOMAIN cs_controller) =>
          /\ raised' = "AssertionError"
          /\ fu_current_cs' = fu_current_cs
          /\ fu_dataframe' = fu_dataframe
          /\ fu_activities' = fu_activities
          /\ connections' = connections
    /\ (last'.op = "sync" /\ fu_current_cs = None) =>
          /\ raised' = "AssertionError"
          /\ emitted' = << >>
          /\ fu_dataframe' = fu_dataframe

C15_AssertionsLeaveState == [][C15_FailStep]_vars

\* a table that shows rows of cs1 and holds subscriptions was asked to load
\* a setup that does not exist
C15_Witness ==
    /\ last.op = "load" /\ last.name = GhostName /\ raised = "AssertionError"
    /\ fu_current_cs = "cs1"
    /\ fu_dataframe.rows # << >>
    /\ \E k \in Keys : connections[k] > 0

\* the step is an operation of the functional-unit table
FuOperation ==
    \/ last'.op \in {"load", "sync", "include_activities"}
    \/ last'.op \in {"relocateRow", "delete_rows"} /\ last'.name = "fu"

\* C16 as claimed: no operation of the functional-unit table (load, sync,
\* relocate, delete, include) changes the store.
C16_NoOperationModifiesStore ==
    [][FuOperation => cs_controller' = cs_controller]_vars

\* C16 as amended: load and sync never change the store, so a functional
\* unit whose row sync drops stays in 'inv' where it was; relocate, delete
\* and include change it only through the handler of the 'setup changed'
\* notification they emit, which sets the current setup's 'inv' to the rows
\* of the table.
C16_StoreStep ==
    /\ last'.op \in {"load", "sync"} => cs_controller' = cs_controller
    /\ FuOperation =>
          \/ cs_controller' = cs_controller
          \/ /\ \E i \in 1..Len(emitted') : emitted'[i] = SetupChanged
             /\ cs_controller' =
                   WriteBackInv(cs_controller, fu_current_cs, fu_dataframe')

C16_StoreChangesOnlyByWriteBack == [][C16_StoreStep]_vars

\* sync has dropped the row of a functional unit that does not resolve, and
\* the store still holds the functional unit
C16_Witness ==
    /\ last.op = "sync" /\ raised = None
    /\ \E i \in 1..Len(Inv(cs_controller, fu_current_cs)) :
          LET fu == Inv(cs_controller, fu_current_cs)[i]
          IN  /\ ~subscribes(activity_controller, fu.key)
              /\ fu.key \notin RowKeys(fu_dataframe)

\* the step is an operation that changes the rows of the functional-unit
\* table: a relocateRow or delete_rows that returns, an include_activities
\* that adds a row
FuRowsChanged ==
    \/ last'.op \in {"relocateRow", "delete_rows"} /\ last'.name = "fu" /\ raised' = None
    \/ last'.op = "include_activities" /\ Len(fu_dataframe'.rows) > Len(fu_dataframe.rows)

\* the same for the methods table
MRowsChanged ==
    \/ last'.op \in {"relocateRow", "delete_rows"} /\ last'.name = "m" /\ raised' = None
    \/ last'.op = "include_methods" /\ Len(methods(m_dataframe')) > Len(methods(m_dataframe))

\* C17: every operation that changes rows emits 'updated' once and then
\* calculation_setup_changed once, and the rows a subscriber reads at the
\* emit (the handler of calculation_setup_changed writes them to the store)
\* are the rows the operation leaves.
C17_SignalStep ==
    /\ FuRowsChanged =>
          /\ emitted' = <<Updated, SetupChanged>>
          /\ Inv(cs_controller', fu_current_cs) = activities(fu_dataframe')
    /\ MRowsChanged =>
          /\ emitted' = <<Updated, SetupChanged>>
          /\ m_current_cs \in DOMAIN cs_controller =>
                cs_controller'[m_current_cs].ia = methods(m_dataframe')

C17_UpdatedThenSetupChanged == [][C17_SignalStep]_vars

\* delete_rows has removed the only row of the functional-unit table: its
\* entity is still tracked, its subscription is gone
C17_Witness ==
    /\ last.op = "delete_rows" /\ last.name = "fu" /\ raised = None
    /\ fu_dataframe.rows = << >>
    /\ fu_activities # << >>
    /\ \A k \in Keys : connections[k] = 0
    /\ emitted = <<Updated, SetupChanged>>

\* C18: the tracked entities are the live subscriptions: an entity is in
\* _activities as many times as sync is connected to its 'changed' signal,
\* so the teardown of load never disconnects what is not connected.
C18_TrackedMatchesSubscriptions ==
    /\ \A k \in Keys : Count(fu_activities, k) = connections[k]
    /\ last.op = "load" => raised # "RuntimeError"

\* the positions in the trace of the last delete of the calls with this
\* name, signal and entity
Calls(call, signal, entity) ==
    {i \in 1..Len(updater.trace) : updater.trace[i] = Call(call, signal, entity)}

\* the last delete has performed the deletion of the superclass
UnderlyingDeleted == Calls("patched().delete", None, updater.name) # {}

\* the database if it is tracked, the tracked activities and the tracked
\* exchanges of the deleted database
NotifiedDbs == {updater.name} \cap updater.database_updater
NotifiedActs == affected_acts(updater, updater.name)
NotifiedExcs == affected_excs(updater, updater.name)

\* C19: when delete has deleted the database, both lists of affected
\* tracked entities were built before the deletion and every emitLater came
\* after it; the tracked database, every tracked activity of the database
\* and every tracked exchange into or out of it got one 'changed' and later
\* one 'deleted', database before activities before exchanges; nothing else
\* got a notification.
C19_DeleteNotifies ==
    UnderlyingDeleted =>
        LET t == updater.trace
            d == CHOOSE i \in Calls("patched().delete", None, updater.name) : TRUE
            kind(x) == IF x \in Databases THEN 1 ELSE IF x \in ActivityIds THEN 2 ELSE 3
        IN  /\ \E i \in Calls("acts", None, updater.name) : i < d
            /\ \E i \in Calls("excs", None, updater.name) : i < d
            /\ \A i \in 1..Len(t) : t[i].call = "emitLater" => i > d
            /\ \A x \in NotifiedDbs \cup NotifiedActs \cup NotifiedExcs :
                  /\ Cardinality(Calls("emitLater", "changed", x)) = 1
                  /\ Cardinality(Calls("emitLater", "deleted", x)) = 1
                  /\ \A i \in Calls("emitLater", "changed", x),
                        j \in Calls("emitLater", "deleted", x) : i < j
            /\ \A i \in 1..Len(t) : t[i].call = "emitLater" =>
                  t[i].entity \in NotifiedDbs \cup NotifiedActs \cup NotifiedExcs
            /\ \A i, j \in 1..Len(t) :
                  (/\ t[i].call = "emitLater" /\ t[j].call = "emitLater"
                   /\ kind(t[i].entity) < kind(t[j].entity)) => i < j

\* db1 was deleted while both databases, all activities and all exchanges
\* were tracked
C19_Witness ==
    /\ UnderlyingDeleted /\ updater.name = "db1" /\ updater.raised = None
    /\ updater.database_updater = Databases
    /\ updater.activity_updater = ActivityIds
    /\ updater.exchange_updater = ExchangeIds

\* the step deletes the entity of a row of the functional-unit table from
\* the registry and delivers its 'changed' notification to sync
RowEntityDeleted ==
    /\ last'.op = "entity_changed" /\ last'.runs >= 1
    /\ activity_controller'[last'.name] = "absent"
    /\ last'.name \in RowKeys(fu_dataframe)

\* C20: when the entity of a row is deleted and its 'changed' notification
\* has been handled, the table has no row for its key, the other rows whose
\* key resolves to a process are there in the order they had, 'updated' was
\* emitted and the setup's 'inv' in the store still holds the key.
C20_DeletedStep ==
    RowEntityDeleted =>
        /\ last'.name \notin RowKeys(fu_dataframe')
        /\ fu_dataframe'.rows =
              SelectSeq(fu_dataframe.rows,
                        LAMBDA r : r.key # last'.name
                                   /\ subscribes(activity_controller', r.key))
        /\ \E i \in 1..Len(emitted') : emitted'[i] = Updated
        /\ \E i \in 1..Len(Inv(cs_controller', fu_current_cs)) :
              Inv(cs_controller', fu_current_cs)[i].key = last'.name

C20_DeletedEntityRowDropped == [][C20_DeletedStep]_vars

\* C21: when the methods table has handled calculation_setup_selected or
\* method_deleted, no exception has left the handler, every row is a method
\* of the catalog, and the rows are the 'ia' of the current setup in the
\* store.
C21_RowsReconciled ==
    last.op \in {"update_cs", "method_deleted"} =>
        /\ raised = None
        /\ \A i \in 1..Len(methods(m_dataframe)) : methods(m_dataframe)[i] \in bw_methods
        /\ m_current_cs # None =>
              /\ m_current_cs \in DOMAIN cs_controller
              /\ methods(m_dataframe) = cs_controller[m_current_cs].ia

\* method_deleted found a stale reference in the current setup and a row
\* is left
C21_Witness ==
    /\ last.op = "method_deleted" /\ last.stale >= 1
    /\ m_current_cs = "cs1"
    /\ methods(m_dataframe) # << >>

\* no two elements of the sequence s that are in the set S are equal
DistinctIn(s, S) ==
    \A i, j \in 1..Len(s) : (i # j /\ s[i] \in S) => s[i] # s[j]

\* the keys of the rows of the functional-unit table, in row order
KeyColumn(df) == [i \in 1..Len(df.rows) |-> df.rows[i].key]

\* C22: an include on a table whose rows have pairwise distinct keys leaves
\* a table whose rows have pairwise distinct keys, also when the batch names
\* a new key or method twice.
C22_IncludeStep ==
    /\ (last'.op = "include_activities" /\ DistinctIn(KeyColumn(fu_dataframe), Keys)) =>
          DistinctIn(KeyColumn(fu_dataframe'), Keys)
    /\ (last'.op = "include_methods" /\ DistinctIn(methods(m_dataframe), Methods)) =>
          DistinctIn(methods(m_dataframe'), Methods)

C22_IncludeKeepsKeysDistinct == [][C22_IncludeStep]_vars

\* C23: update_cs(name) and sync(name) of the methods table with a name the
\* store does not hold fail and leave the current setup and the rows as
\* they were.
C23_AbsentNameStep ==
    (/\ last'.op \in {"update_cs", "m_sync"}
     /\ last'.name # None
     /\ last'.name \notin DOMAIN cs_controller) =>
        /\ raised' # None
        /\ m_current_cs' = m_current_cs
        /\ m_dataframe' = m_dataframe

C23_AbsentNameLeavesState == [][C23_AbsentNameStep]_vars

=============================================================================
